---- MODULE Spec2Model ----
(***************************************************************************)
(* dash::Mutex (dash/include/dash/Mutex.h): a team-wide lock whose state   *)
(* lives in the DART runtime.  Each process owns Mutex instances that hold *)
(* a dart_lock_t handle (_mutex) and a team reference (_team); every       *)
(* member function forwards one request to the runtime and asserts that    *)
(* the returned status is DART_OK.                                         *)
(*                                                                         *)
(* The Mutex member functions are translated from Mutex.h.  The runtime    *)
(* calls (dart_team_lock_init, dart_team_lock_free, dart_lock_acquire,     *)
(* dart_lock_try_acquire, dart_lock_release) and DASH_ASSERT_EQ are not    *)
(* part of Mutex.h; they follow the RuntimeLockService contract of the     *)
(* specification (sections 4.1, 6 and 7).                                  *)
(*                                                                         *)
(* Spec, LiveSpec, NoFailSpec: the processes are unconstrained clients; a   *)
(* process may construct a Mutex for any team it is a member of, as often  *)
(* as the bounds allow (every construction creates a lock of its own), and *)
(* may call any member function of any of its live objects at any time,    *)
(* including calls that break a precondition (unlock without holding, lock *)
(* while holding, destruction while the lock is held, any call on an       *)
(* object whose lock was freed through another object).  In Spec and       *)
(* LiveSpec any runtime call may report a failure; in NoFailSpec none      *)
(* does.                                                                   *)
(*                                                                         *)
(* ProtocolSpec: the members of a team run the program of the class        *)
(* documentation (construct, guarded blocks, barrier, destroy) on a        *)
(* runtime that reports no failure.  dash::Array is not part of Mutex.h:   *)
(* an assignment to arr[0] reaches the memory at some moment after the     *)
(* statement, as the remark of the documentation about the missing flush   *)
(* says, and a read returns what the memory holds.                         *)
(***************************************************************************)
EXTENDS Integers, FiniteSets, Sequences, TLC

\* ---------------------------------------------------------------- bounds
NProcs     == 2      \* processes of the team
MaxInst    == 2      \* Mutex objects a process can have (construct / move)
MaxObjs    == 4      \* Mutex objects the processes create in a run
MaxPairs   == 2      \* lock()/unlock() pairs of a process in the usage protocol

Procs   == 1..NProcs
Insts   == 1..MaxInst

\* dash::Team::All(), of which every process is a member, and a team of
\* process 1 alone
TeamAll == "ALL"
TeamSub == "SUB"
Teams   == {TeamAll, TeamSub}
Members(t) == IF t = TeamAll THEN Procs ELSE {1}

\* dart_ret_t values as seen by DASH_ASSERT_EQ(DART_OK, ret, ...)
DART_OK  == "DART_OK"
DART_ERR == "DART_ERR"
Status   == {DART_OK, DART_ERR}

\* the value of a dart_lock_t that was never set
NoHandle == 0

\* The locks of the runtime, in the order it creates them (every Mutex
\* object comes with one lock at most); dart_team_lock_init stores the
\* handle of its lock in _mutex.
LockHandle == 1      \* the first lock created
Handles == 1..MaxObjs

VARIABLES
  pc,          \* pc[p]: "idle", blocked inside a runtime call ("init_wait",
               \* "free_wait", "lock_wait") or "aborted"
  arg,         \* arg[p]: the _mutex passed to the dart_lock_acquire p is in
  inst,        \* inst[p][i]: the Mutex object i of process p (_mutex, _team)
  nInit,       \* nInit[p]: dart_team_lock_init calls p has issued
  nMove,       \* nMove[p]: Mutex objects p has move-constructed
  lteam,       \* runtime: lteam[h], the team lock h was requested for
  hstate,      \* runtime: hstate[h] in uninit / init / destroyed
  holder,      \* runtime: holder[h], 0 when unlocked
  initArrived, \* runtime: members that entered the collective init of h
  freeArrived, \* runtime: members that entered the collective free of h
  held,        \* held[p]: handles p returned from lock()/true try_lock() on
  freeCount,   \* freeCount[p][h]: dart_team_lock_free requests p issued on h
  ev,          \* the last request sent to the runtime / the last return
  diag,        \* diag[p]: the diagnostic of the assertion that aborted p
  step,        \* step[p]: where p is in the usage protocol of the class doc
  goal,        \* goal[p]: lock()/unlock() pairs p executes in the protocol
  done,        \* done[p]: lock()/unlock() pairs p has completed
  shared,      \* arr[0] of the class documentation, as the memory holds it
  pending,     \* <<v>>: the value v assigned to arr[0] is on its way to the
               \* memory; <<>>: every assignment has arrived
  tmp,         \* tmp[p]: the local "int tmp" of the guarded block
  useBarrier,  \* whether the program calls the barrier after the block
  barArrived,  \* processes that entered the barrier
  pteam        \* the team whose members run the usage protocol

vars == <<pc, arg, inst, nInit, nMove, lteam, hstate, holder, initArrived,
          freeArrived, held, freeCount, ev, diag,
          step, goal, done, shared, pending, tmp, useBarrier,
          barArrived, pteam>>

\* the state of the program that uses the Mutex
client == <<step, goal, done, shared, pending, tmp, useBarrier,
            barArrived, pteam>>

rt == <<lteam, hstate, holder, initArrived, freeArrived>>

NoInst == [st |-> "none", mutex |-> NoHandle, team |-> "none"]
NoEv   == [op |-> "none", p |-> 0, h |-> NoHandle, hpre |-> "none",
           holderPre |-> 0, status |-> "none", result |-> "none"]
\* an object whose lifetime has ended
Gone   == [st |-> "dead", mutex |-> NoHandle, team |-> "none"]
NoDiag == [msg |-> "none", call |-> "none", status |-> "none"]

\* no Mutex constructed, the runtime holds no lock
MutexInit ==
  /\ pc = [p \in Procs |-> "idle"]
  /\ arg = [p \in Procs |-> NoHandle]
  /\ inst = [p \in Procs |-> [i \in Insts |-> NoInst]]
  /\ nInit = [p \in Procs |-> 0]
  /\ nMove = [p \in Procs |-> 0]
  /\ lteam = [h \in Handles |-> "none"]
  /\ hstate = [h \in Handles |-> "uninit"]
  /\ holder = [h \in Handles |-> 0]
  /\ initArrived = [h \in Handles |-> {}]
  /\ freeArrived = [h \in Handles |-> {}]
  /\ held = [p \in Procs |-> {}]
  /\ freeCount = [p \in Procs |-> [h \in Handles |-> 0]]
  /\ ev = NoEv
  /\ diag = [p \in Procs |-> NoDiag]

\* a program of the members of team t that is to execute g[p] guarded
\* blocks on process p
ClientInit(g, b, t) ==
  /\ step = [p \in Procs |-> "start"]
  /\ goal = g
  /\ done = [p \in Procs |-> 0]
  /\ shared = 0
  /\ pending = <<>>
  /\ tmp = [p \in Procs |-> 0]
  /\ useBarrier = b
  /\ barArrived = {}
  /\ pteam = t

Init ==
  /\ MutexInit
  /\ ClientInit([p \in Procs |-> 0], FALSE, TeamAll)

\* ------------------------------------------------------ DASH_ASSERT_EQ
\* DASH_ASSERT_EQ(expected, actual, msg): passes iff the two are equal,
\* otherwise the process terminates with msg and the actual value.
DASH_ASSERT_EQ(expected, actual) == expected = actual

\* the objects of a process that terminated are gone with it
Fatal(p, msg, call, status) ==
  /\ pc' = [pc EXCEPT ![p] = "aborted"]
  /\ inst' = [inst EXCEPT ![p] = [i \in Insts |-> Gone]]
  /\ diag' = [diag EXCEPT ![p] = [msg |-> msg, call |-> call, status |-> status]]

\* the state of the lock a handle value names, as the runtime sees it
HState(h) == IF h \in Handles THEN hstate[h] ELSE "uninit"
Holder(h) == IF h \in Handles THEN holder[h] ELSE 0

\* static_cast<bool>(result) of an int32_t
static_cast_bool(result) == result # 0

\* how a returned bool is written in ev.result
Ret(b) == IF b THEN "true" ELSE "false"

Event(op, p, h, status, result) ==
  [op |-> op, p |-> p, h |-> h, hpre |-> HState(h),
   holderPre |-> Holder(h), status |-> status, result |-> result]

\* The order of the objects of a process has no effect on any operation;
\* they are kept sorted by state and handle (live objects first).
StRank(st) ==
  CASE st = "live"  -> 0
    [] st = "dying" -> 1
    [] st = "ctor"  -> 2
    [] st = "dead"  -> 3
    [] OTHER        -> 4

Key(obj) == StRank(obj.st) * (MaxObjs + 1) + obj.mutex

Sorted(objs) ==
  [i \in Insts |->
     objs[CHOOSE j \in Insts :
            /\ Cardinality({k \in Insts : Key(objs[k]) < Key(objs[j])}) < i
            /\ i <= Cardinality({k \in Insts : Key(objs[k]) <= Key(objs[j])})]]

\* the object of p that is inside its constructor / destructor
Current(p, st) == CHOOSE i \in Insts : inst[p][i].st = st

\* the slot a newly created object of p takes
FreeSlot(p) ==
  IF \E i \in Insts : inst[p][i].st = "none"
    THEN CHOOSE i \in Insts : /\ inst[p][i].st = "none"
                              /\ \A j \in Insts : inst[p][j].st = "none" => i <= j
    ELSE 0

\* The Mutex objects constructed so far, by Mutex(Team &) or by
\* Mutex(Mutex &&), whatever became of them and of their processes.
Created ==
  LET sum[k \in 0..NProcs] ==
        IF k = 0 THEN 0 ELSE nInit[k] + nMove[k] + sum[k - 1]
  IN sum[NProcs]

Lowest(S) == CHOOSE h \in S : \A g \in S : h <= g
Highest(S) == CHOOSE h \in S : \A g \in S : g <= h

\* ------------------------------------------------- runtime lock service
\* The lock a dart_team_lock_init of p for team t is about: the members of
\* a team call the collective in the same order, so it is the oldest lock
\* of t that p has not entered yet, or else a new lock.
LockToJoin(p, t) ==
  LET open   == {h \in Handles : lteam[h] = t /\ p \notin initArrived[h]}
      unused == {h \in Handles : lteam[h] = "none"}
  IN IF open # {} THEN Lowest(open)
     ELSE IF unused # {} THEN Lowest(unused)
     ELSE NoHandle

\* the lock whose dart_team_lock_init for team t process p entered last
LockJoined(p, t) ==
  Highest({h \in Handles : lteam[h] = t /\ p \in initArrived[h]})

\* create_lock(team_id): collective; the lock state exists, Unlocked, once
\* every member of the team has entered the call
dart_team_lock_init_enter(p, t) ==
  LET h       == LockToJoin(p, t)
      arrived == initArrived[h] \cup {p}
  IN /\ lteam' = [lteam EXCEPT ![h] = t]
     /\ initArrived' = [initArrived EXCEPT ![h] = arrived]
     /\ hstate' = IF arrived = Members(t) /\ hstate[h] = "uninit"
                    THEN [hstate EXCEPT ![h] = "init"]
                    ELSE hstate

\* destroy_lock(team_id, handle): collective; the lock state is freed once
\* every member has entered the call.  Whether a member holds the lock is
\* not checked.
dart_team_lock_free_enter(p, h) ==
  LET arrived == freeArrived[h] \cup {p}
  IN /\ freeArrived' = [freeArrived EXCEPT ![h] = arrived]
     /\ hstate' = IF arrived = Members(lteam[h])
                    THEN [hstate EXCEPT ![h] = "destroyed"]
                    ELSE hstate

\* acquire(handle): returns DART_OK only when the lock is unlocked
dart_lock_acquire_granted(p, h) == holder[h] = 0

\* try_acquire(handle): the result that comes with DART_OK
dart_lock_try_acquire(p, h) == IF holder[h] = 0 THEN 1 ELSE 0

\* release(handle): the statuses possible; releasing a lock the caller does
\* not hold is reported as an error and leaves the lock as it is
dart_lock_release(p, h) == IF holder[h] = p THEN Status ELSE {DART_ERR}

\* A dart_lock_t whose lock state was freed is a dangling pointer: a call
\* that passes it has undefined behaviour.  The runtime answers such a call
\* at once, with either status (and, for try_acquire, either result), and
\* leaves its lock state as it is.
Dangling(h) == HState(h) # "init"

\* --------------------------------------------- Mutex(Team &) : lines 47-52
\* stores team in _team and enters dart_team_lock_init(_team.dart_id(),
\* &_mutex); the call is collective and returns once every member of the
\* team has entered it.  Every call creates a lock of its own.  A process
\* has references to the teams it is a member of.
MutexCall(p, i, t) ==
  /\ pc[p] = "idle"
  /\ i = FreeSlot(p)
  /\ Created < MaxObjs
  /\ p \in Members(t)
  /\ LockToJoin(p, t) # NoHandle
  /\ nInit' = [nInit EXCEPT ![p] = @ + 1]
  /\ nMove' = nMove
  /\ dart_team_lock_init_enter(p, t)
  /\ inst' = [inst EXCEPT ![p] = Sorted([@ EXCEPT ![i] =
                [st |-> "ctor", mutex |-> NoHandle, team |-> t]])]
  /\ ev' = Event("init", p, NoHandle, "none", "none")
  /\ pc' = [pc EXCEPT ![p] = "init_wait"]
  /\ UNCHANGED <<arg, holder, freeArrived, held, freeCount, diag>>

\* Mutex(Team &) that leaves the new lock acquired by the constructing process
MutexReturn_Locked(p, ret) ==
  /\ pc[p] = "init_wait"
  /\ LET i == Current(p, "ctor")
         h == LockJoined(p, inst[p][i].team)
     IN /\ HState(h) # "uninit"
        /\ ev' = Event("init_return", p, h, ret, "none")
        /\ IF DASH_ASSERT_EQ(DART_OK, ret)
             THEN /\ inst' = [inst EXCEPT ![p] = Sorted([@ EXCEPT ![i] =
                               [st |-> "live", mutex |-> h, team |-> @.team]])]
                  /\ pc' = [pc EXCEPT ![p] = "idle"]
                  /\ holder' = [holder EXCEPT ![h] = p]
                  /\ diag' = diag
             ELSE /\ Fatal(p, "dart_team_lock_init failed", "init", ret)
                  /\ holder' = holder
  /\ UNCHANGED <<arg, nInit, nMove, lteam, hstate, initArrived, freeArrived, held,
                 freeCount>>

\* dart_team_lock_init returns ret and the handle; DASH_ASSERT_EQ(DART_OK, ret)
MutexReturn(p, ret) ==
  /\ pc[p] = "init_wait"
  /\ LET i == Current(p, "ctor")
         h == LockJoined(p, inst[p][i].team)
     IN /\ HState(h) # "uninit"
        /\ ev' = Event("init_return", p, h, ret, "none")
        /\ IF DASH_ASSERT_EQ(DART_OK, ret)
             THEN /\ inst' = [inst EXCEPT ![p] = Sorted([@ EXCEPT ![i] =
                               [st |-> "live", mutex |-> h, team |-> @.team]])]
                  /\ pc' = [pc EXCEPT ![p] = "idle"]
                  /\ diag' = diag
             ELSE Fatal(p, "dart_team_lock_init failed", "init", ret)
  /\ UNCHANGED <<arg, nInit, nMove, rt, held, freeCount>>

\* Mutex(Mutex &&) that constructs a new lock for the team of the source
MutexMove_NewLock(p, src, dst) ==
  /\ pc[p] = "idle"
  /\ src # dst
  /\ inst[p][src].st = "live"
  /\ dst = FreeSlot(p)
  /\ Created < MaxObjs
  /\ nInit' = [nInit EXCEPT ![p] = @ + 1]
  /\ nMove' = nMove
  /\ inst' = [inst EXCEPT ![p] = Sorted([@ EXCEPT ![dst] =
                [st    |-> "live",
                 mutex |-> inst[p][src].mutex,
                 team  |-> inst[p][src].team]])]
  /\ ev' = Event("move", p, inst[p][src].mutex, "none", "none")
  /\ UNCHANGED <<pc, arg, rt, held, freeCount, diag>>

\* ------------------------------------------- Mutex(Mutex &&) : line 55
\* "= default": member-wise move.  _mutex is a dart_lock_t (a pointer) and
\* _team a reference, so the destination receives copies of both and the
\* source keeps its values; no runtime call is made.
MutexMove(p, src, dst) ==
  /\ pc[p] = "idle"
  /\ src # dst
  /\ inst[p][src].st = "live"
  /\ dst = FreeSlot(p)
  /\ Created < MaxObjs
  /\ inst' = [inst EXCEPT ![p] = Sorted([@ EXCEPT ![dst] =
                [st    |-> "live",
                 mutex |-> inst[p][src].mutex,
                 team  |-> inst[p][src].team]])]
  /\ ev' = Event("move", p, inst[p][src].mutex, "none", "none")
  /\ nMove' = [nMove EXCEPT ![p] = @ + 1]
  /\ UNCHANGED <<pc, arg, nInit, rt, held, freeCount, diag>>

\* ~Mutex that first releases the lock when the destroying process holds it
DtorCall_Releases(p, i, ret) ==
  /\ pc[p] = "idle"
  /\ inst[p][i].st = "live"
  /\ LET h == inst[p][i].mutex
     IN /\ ev' = Event("free", p, h, "none", "none")
        /\ freeCount' = [freeCount EXCEPT ![p][h] = @ + 1]
        /\ IF Dangling(h)
             THEN /\ IF DASH_ASSERT_EQ(DART_OK, ret)
                       THEN /\ inst' = [inst EXCEPT
                                          ![p] = Sorted([@ EXCEPT ![i] = Gone])]
                            /\ UNCHANGED <<pc, diag>>
                       ELSE Fatal(p, "dart_team_lock_free failed", "free", ret)
                  /\ UNCHANGED <<arg, nInit, nMove, rt, held>>
             ELSE /\ ret = DART_OK
                  /\ dart_team_lock_free_enter(p, h)
                  /\ holder' = IF holder[h] = p THEN [holder EXCEPT ![h] = 0]
                                                ELSE holder
                  /\ inst' = [inst EXCEPT
                                ![p] = Sorted([@ EXCEPT ![i].st = "dying"])]
                  /\ pc' = [pc EXCEPT ![p] = "free_wait"]
                  /\ UNCHANGED <<arg, nInit, nMove, lteam, initArrived, held, diag>>

\* ---------------------------------------------------- ~Mutex : lines 64-67
\* enters dart_team_lock_free(_team.dart_id(), &_mutex).  On a freed handle
\* the runtime answers ret at once.
DtorCall(p, i, ret) ==
  /\ pc[p] = "idle"
  /\ inst[p][i].st = "live"
  /\ LET h == inst[p][i].mutex
     IN /\ ev' = Event("free", p, h, "none", "none")
        /\ freeCount' = [freeCount EXCEPT ![p][h] = @ + 1]
        /\ IF Dangling(h)
             THEN /\ IF DASH_ASSERT_EQ(DART_OK, ret)
                       THEN /\ inst' = [inst EXCEPT
                                          ![p] = Sorted([@ EXCEPT ![i] = Gone])]
                            /\ UNCHANGED <<pc, diag>>
                       ELSE Fatal(p, "dart_team_lock_free failed", "free", ret)
                  /\ UNCHANGED <<arg, nInit, nMove, rt, held>>
             ELSE /\ ret = DART_OK
                  /\ dart_team_lock_free_enter(p, h)
                  /\ inst' = [inst EXCEPT
                                ![p] = Sorted([@ EXCEPT ![i].st = "dying"])]
                  /\ pc' = [pc EXCEPT ![p] = "free_wait"]
                  /\ UNCHANGED <<arg, nInit, nMove, lteam, holder, initArrived, held,
                                 diag>>

\* ~Mutex that returns without waiting for the other members of the team
DtorReturn_NoWait(p, ret) ==
  /\ pc[p] = "free_wait"
  /\ LET i == Current(p, "dying")
         h == inst[p][i].mutex
     IN /\ ev' = Event("free_return", p, h, ret, "none")
        /\ IF DASH_ASSERT_EQ(DART_OK, ret)
             THEN /\ inst' = [inst EXCEPT ![p] = Sorted([@ EXCEPT ![i] = Gone])]
                  /\ pc' = [pc EXCEPT ![p] = "idle"]
                  /\ diag' = diag
             ELSE Fatal(p, "dart_team_lock_free failed", "free", ret)
  /\ UNCHANGED <<arg, nInit, nMove, rt, held, freeCount>>

\* dart_team_lock_free returns ret; DASH_ASSERT_EQ(DART_OK, ret, ...)
DtorReturn(p, ret) ==
  /\ pc[p] = "free_wait"
  /\ LET i == Current(p, "dying")
         h == inst[p][i].mutex
     IN /\ HState(h) = "destroyed"
        /\ ev' = Event("free_return", p, h, ret, "none")
        /\ IF DASH_ASSERT_EQ(DART_OK, ret)
             THEN /\ inst' = [inst EXCEPT ![p] = Sorted([@ EXCEPT ![i] = Gone])]
                  /\ pc' = [pc EXCEPT ![p] = "idle"]
                  /\ diag' = diag
             ELSE Fatal(p, "dart_team_lock_free failed", "free", ret)
  /\ UNCHANGED <<arg, nInit, nMove, rt, held, freeCount>>

\* lock() that returns at once when the calling process holds the lock
lockCall_Recursive(p, i, ret) ==
  /\ pc[p] = "idle"
  /\ inst[p][i].st = "live"
  /\ LET h == inst[p][i].mutex
     IN /\ ev' = Event("acquire", p, h, "none", "none")
        /\ IF Dangling(h)
             THEN /\ IF DASH_ASSERT_EQ(DART_OK, ret)
                       THEN /\ held' = [held EXCEPT ![p] = @ \cup {h}]
                            /\ UNCHANGED <<pc, inst, diag>>
                       ELSE /\ Fatal(p, "dart_lock_acquire failed", "acquire",
                                     ret)
                            /\ held' = held
                  /\ UNCHANGED <<arg, nInit, nMove, rt>>
             ELSE /\ ret = DART_OK
                  /\ pc' = [pc EXCEPT ![p] = IF holder[h] = p THEN "idle"
                                                             ELSE "lock_wait"]
                  /\ arg' = [arg EXCEPT ![p] = IF holder[h] = p THEN NoHandle
                                                                ELSE h]
                  /\ UNCHANGED <<inst, nInit, nMove, rt, held, diag>>
  /\ UNCHANGED freeCount

\* ------------------------------------------------------ lock : lines 72-75
\* enters dart_lock_acquire(_mutex) and blocks.  On a freed handle the
\* runtime answers ret at once.
lockCall(p, i, ret) ==
  /\ pc[p] = "idle"
  /\ inst[p][i].st = "live"
  /\ LET h == inst[p][i].mutex
     IN /\ ev' = Event("acquire", p, h, "none", "none")
        /\ IF Dangling(h)
             THEN /\ IF DASH_ASSERT_EQ(DART_OK, ret)
                       THEN /\ held' = [held EXCEPT ![p] = @ \cup {h}]
                            /\ UNCHANGED <<pc, inst, diag>>
                       ELSE /\ Fatal(p, "dart_lock_acquire failed", "acquire",
                                     ret)
                            /\ held' = held
                  /\ UNCHANGED <<arg, nInit, nMove, rt>>
             ELSE /\ ret = DART_OK
                  /\ pc' = [pc EXCEPT ![p] = "lock_wait"]
                  /\ arg' = [arg EXCEPT ![p] = h]
                  /\ UNCHANGED <<inst, nInit, nMove, rt, held, diag>>
  /\ UNCHANGED freeCount

\* lock() that returns without waiting for the runtime to grant the lock
lockReturn_NoGrant(p, ret) ==
  /\ pc[p] = "lock_wait"
  /\ LET h == arg[p]
     IN /\ ev' = Event("lock_return", p, h, ret, "none")
        /\ IF DASH_ASSERT_EQ(DART_OK, ret)
             THEN /\ holder' = [holder EXCEPT ![h] = p]
                  /\ held' = [held EXCEPT ![p] = @ \cup {h}]
                  /\ pc' = [pc EXCEPT ![p] = "idle"]
                  /\ UNCHANGED <<inst, diag>>
             ELSE /\ UNCHANGED <<holder, held>>
                  /\ Fatal(p, "dart_lock_acquire failed", "acquire", ret)
  /\ arg' = [arg EXCEPT ![p] = NoHandle]
  /\ UNCHANGED <<nInit, nMove, lteam, hstate, initArrived, freeArrived, freeCount>>

\* lock() that asks for the lock once and returns whether or not it got it
lockReturn_TryOnce(p, ret) ==
  /\ pc[p] = "lock_wait"
  /\ LET h == arg[p]
     IN /\ ev' = Event("lock_return", p, h, ret, "none")
        /\ IF DASH_ASSERT_EQ(DART_OK, ret)
             THEN /\ holder' = IF dart_lock_acquire_granted(p, h)
                                 THEN [holder EXCEPT ![h] = p]
                                 ELSE holder
                  /\ held' = [held EXCEPT ![p] = @ \cup {h}]
                  /\ pc' = [pc EXCEPT ![p] = "idle"]
                  /\ UNCHANGED <<inst, diag>>
             ELSE /\ UNCHANGED <<holder, held>>
                  /\ Fatal(p, "dart_lock_acquire failed", "acquire", ret)
  /\ arg' = [arg EXCEPT ![p] = NoHandle]
  /\ UNCHANGED <<nInit, nMove, lteam, hstate, initArrived, freeArrived, freeCount>>

\* dart_lock_acquire returns ret; DASH_ASSERT_EQ(DART_OK, ret, ...)
lockReturn(p, ret) ==
  /\ pc[p] = "lock_wait"
  /\ LET h == arg[p]
     IN /\ ret = DART_OK => dart_lock_acquire_granted(p, h)
        /\ ev' = Event("lock_return", p, h, ret, "none")
        /\ IF DASH_ASSERT_EQ(DART_OK, ret)
             THEN /\ holder' = [holder EXCEPT ![h] = p]
                  /\ held' = [held EXCEPT ![p] = @ \cup {h}]
                  /\ pc' = [pc EXCEPT ![p] = "idle"]
                  /\ UNCHANGED <<inst, diag>>
             ELSE /\ UNCHANGED <<holder, held>>
                  /\ Fatal(p, "dart_lock_acquire failed", "acquire", ret)
  /\ arg' = [arg EXCEPT ![p] = NoHandle]
  /\ UNCHANGED <<nInit, nMove, lteam, hstate, initArrived, freeArrived, freeCount>>

\* try_lock() on a freed handle: the runtime answers ret and, with DART_OK,
\* some result; its lock state stays as it is
try_lock_Dangling(p, h, ret) ==
  \E result \in {0, 1} :
    IF DASH_ASSERT_EQ(DART_OK, ret)
      THEN /\ ev' = Event("try_lock", p, h, ret, Ret(static_cast_bool(result)))
           /\ held' = IF static_cast_bool(result)
                        THEN [held EXCEPT ![p] = @ \cup {h}]
                        ELSE held
           /\ UNCHANGED <<pc, arg, inst, nInit, nMove, rt, diag>>
      ELSE /\ ev' = Event("try_lock", p, h, ret, "none")
           /\ Fatal(p, "dart_lock_try_acquire failed", "try_acquire", ret)
           /\ UNCHANGED <<arg, nInit, nMove, rt, held>>

\* try_lock() that returns the status of the call instead of result
try_lock_ReturnsStatus(p, i, ret) ==
  /\ pc[p] = "idle"
  /\ inst[p][i].st = "live"
  /\ LET h == inst[p][i].mutex
     IN IF Dangling(h)
          THEN try_lock_Dangling(p, h, ret)
          ELSE LET result == dart_lock_try_acquire(p, h)
               IN IF DASH_ASSERT_EQ(DART_OK, ret)
                    THEN /\ ev' = Event("try_lock", p, h, ret,
                                        Ret(ret = DART_OK))
                         /\ holder' = IF result # 0
                                        THEN [holder EXCEPT ![h] = p]
                                        ELSE holder
                         /\ held' = [held EXCEPT ![p] = @ \cup {h}]
                         /\ UNCHANGED <<pc, arg, inst, nInit, nMove, lteam, hstate,
                                        initArrived, freeArrived, diag>>
                    ELSE /\ ev' = Event("try_lock", p, h, ret, "none")
                         /\ Fatal(p, "dart_lock_try_acquire failed",
                                  "try_acquire", ret)
                         /\ UNCHANGED <<arg, nInit, nMove, rt, held>>
  /\ UNCHANGED freeCount

\* try_lock() that returns !result
try_lock_Inverted(p, i, ret) ==
  /\ pc[p] = "idle"
  /\ inst[p][i].st = "live"
  /\ LET h == inst[p][i].mutex
     IN IF Dangling(h)
          THEN try_lock_Dangling(p, h, ret)
          ELSE LET result == dart_lock_try_acquire(p, h)
               IN IF DASH_ASSERT_EQ(DART_OK, ret)
                    THEN /\ ev' = Event("try_lock", p, h, ret,
                                        Ret(~ static_cast_bool(result)))
                         /\ holder' = IF result # 0
                                        THEN [holder EXCEPT ![h] = p]
                                        ELSE holder
                         /\ held' = IF ~ static_cast_bool(result)
                                      THEN [held EXCEPT ![p] = @ \cup {h}]
                                      ELSE held
                         /\ UNCHANGED <<pc, arg, inst, nInit, nMove, lteam, hstate,
                                        initArrived, freeArrived, diag>>
                    ELSE /\ ev' = Event("try_lock", p, h, ret, "none")
                         /\ Fatal(p, "dart_lock_try_acquire failed",
                                  "try_acquire", ret)
                         /\ UNCHANGED <<arg, nInit, nMove, rt, held>>
  /\ UNCHANGED freeCount

\* -------------------------------------------------- try_lock : lines 81-86
\* dart_lock_try_acquire(_mutex, &result) returns ret and sets result;
\* DASH_ASSERT_EQ(DART_OK, ret, ...); return static_cast<bool>(result)
try_lock(p, i, ret) ==
  /\ pc[p] = "idle"
  /\ inst[p][i].st = "live"
  /\ LET h == inst[p][i].mutex
     IN IF Dangling(h)
          THEN try_lock_Dangling(p, h, ret)
          ELSE LET result == dart_lock_try_acquire(p, h)
               IN IF DASH_ASSERT_EQ(DART_OK, ret)
                    THEN /\ ev' = Event("try_lock", p, h, ret,
                                        Ret(static_cast_bool(result)))
                         /\ holder' = IF result # 0
                                        THEN [holder EXCEPT ![h] = p]
                                        ELSE holder
                         /\ held' = IF static_cast_bool(result)
                                      THEN [held EXCEPT ![p] = @ \cup {h}]
                                      ELSE held
                         /\ UNCHANGED <<pc, arg, inst, nInit, nMove, lteam, hstate,
                                        initArrived, freeArrived, diag>>
                    ELSE /\ ev' = Event("try_lock", p, h, ret, "none")
                         /\ Fatal(p, "dart_lock_try_acquire failed",
                                  "try_acquire", ret)
                         /\ UNCHANGED <<arg, nInit, nMove, rt, held>>
  /\ UNCHANGED freeCount

\* unlock() on a freed handle: the runtime answers ret; its lock state
\* stays as it is
unlock_Dangling(p, h, ret) ==
  /\ ev' = Event("unlock", p, h, ret, "none")
  /\ IF DASH_ASSERT_EQ(DART_OK, ret)
       THEN /\ held' = [held EXCEPT ![p] = @ \ {h}]
            /\ UNCHANGED <<pc, arg, inst, nInit, nMove, rt, diag>>
       ELSE /\ Fatal(p, "dart_lock_acquire failed", "release", ret)
            /\ UNCHANGED <<arg, nInit, nMove, rt, held>>

\* unlock() that does not look at the status dart_lock_release returned
unlock_Unchecked(p, i, ret) ==
  /\ pc[p] = "idle"
  /\ inst[p][i].st = "live"
  /\ LET h == inst[p][i].mutex
     IN IF Dangling(h)
          THEN unlock_Dangling(p, h, ret)
          ELSE /\ ret \in dart_lock_release(p, h)
               /\ ev' = Event("unlock", p, h, ret, "none")
               /\ holder' = IF ret = DART_OK THEN [holder EXCEPT ![h] = 0]
                                             ELSE holder
               /\ held' = [held EXCEPT ![p] = @ \ {h}]
               /\ UNCHANGED <<pc, arg, inst, nInit, nMove, lteam, hstate,
                              initArrived, freeArrived, diag>>
  /\ UNCHANGED freeCount

\* unlock() that returns without sending the release to the runtime
unlock_NoRelease(p, i, ret) ==
  /\ pc[p] = "idle"
  /\ inst[p][i].st = "live"
  /\ ret = DART_OK
  /\ LET h == inst[p][i].mutex
     IN /\ ev' = Event("unlock", p, h, ret, "none")
        /\ held' = [held EXCEPT ![p] = @ \ {h}]
  /\ UNCHANGED <<pc, arg, inst, nInit, nMove, rt, freeCount, diag>>

\* ---------------------------------------------------- unlock : lines 91-94
\* dart_lock_release(_mutex) returns ret;
\* DASH_ASSERT_EQ(DART_OK, ret, "dart_lock_acquire failed")
unlock(p, i, ret) ==
  /\ pc[p] = "idle"
  /\ inst[p][i].st = "live"
  /\ LET h == inst[p][i].mutex
     IN IF Dangling(h)
          THEN unlock_Dangling(p, h, ret)
          ELSE /\ ret \in dart_lock_release(p, h)
               /\ ev' = Event("unlock", p, h, ret, "none")
               /\ IF DASH_ASSERT_EQ(DART_OK, ret)
                    THEN /\ holder' = [holder EXCEPT ![h] = 0]
                         /\ held' = [held EXCEPT ![p] = @ \ {h}]
                         /\ UNCHANGED <<pc, arg, inst, nInit, nMove, lteam, hstate,
                                        initArrived, freeArrived, diag>>
                    ELSE /\ Fatal(p, "dart_lock_acquire failed", "release",
                                  ret)
                         /\ UNCHANGED <<arg, nInit, nMove, rt, held>>
  /\ UNCHANGED freeCount

\* ------------------------------------------------------- specification
\* every process may call any member function of any of its live objects
Next ==
  /\ \E p \in Procs :
       \/ \E i \in Insts, t \in Teams : MutexCall(p, i, t)
       \/ \E s \in Status : MutexReturn(p, s)
       \/ \E i, j \in Insts : MutexMove(p, i, j)
       \/ \E i \in Insts, s \in Status : DtorCall(p, i, s)
       \/ \E s \in Status : DtorReturn(p, s)
       \/ \E i \in Insts, s \in Status : lockCall(p, i, s)
       \/ \E s \in Status : lockReturn(p, s)
       \/ \E i \in Insts, s \in Status : try_lock(p, i, s)
       \/ \E i \in Insts, s \in Status : unlock(p, i, s)
  /\ UNCHANGED client

Spec == Init /\ [][Next]_vars

\* dart_lock_acquire blocks until the runtime grants the lock: a grant that
\* stays possible is eventually made.  Nothing orders the processes that
\* compete for a lock, so a grant that another acquisition makes
\* impossible again and again need never be made.
LiveSpec ==
  Spec /\ \A p \in Procs : WF_vars(lockReturn(p, DART_OK) /\ UNCHANGED client)

\* The same clients with a runtime that reports no failure of its own:
\* every call returns DART_OK, except a release by a process that does not
\* hold the lock.
NoFailNext ==
  /\ \E p \in Procs :
       \/ \E i \in Insts, t \in Teams : MutexCall(p, i, t)
       \/ MutexReturn(p, DART_OK)
       \/ \E i, j \in Insts : MutexMove(p, i, j)
       \/ \E i \in Insts : DtorCall(p, i, DART_OK)
       \/ DtorReturn(p, DART_OK)
       \/ \E i \in Insts : lockCall(p, i, DART_OK)
       \/ lockReturn(p, DART_OK)
       \/ \E i \in Insts : try_lock(p, i, DART_OK)
       \/ \E i \in Insts, s \in Status :
            /\ Holder(inst[p][i].mutex) = p => s = DART_OK
            /\ unlock(p, i, s)
  /\ UNCHANGED client

NoFailSpec == Init /\ [][NoFailNext]_vars

\* ------------------------------------------- usage protocol : lines 15-34
\* The program of the class documentation, run by every member of the
\* team pteam (the other processes take no part): construct the Mutex for
\* the team, execute the guarded block
\*   { std::lock_guard<dash::Mutex> lg(mx); int tmp = arr[0];
\*     arr[0] = tmp + 1; }
\* goal[p] times, call the barrier of the team (when useBarrier), and
\* leave the scope of the Mutex.  The runtime reports no failure.  The
\* block ends without the flush that its own remark asks for.
mutex_vars == <<pc, arg, inst, nInit, nMove, lteam, hstate, holder, initArrived,
                freeArrived, held, freeCount, ev, diag>>

\* dash::Mutex mx;
P_Construct(p) ==
  /\ step[p] = "start"
  /\ MutexCall(p, FreeSlot(p), pteam)
  /\ step' = [step EXCEPT ![p] = "ctor"]
  /\ UNCHANGED <<goal, done, shared, pending, tmp, useBarrier, barArrived,
                 pteam>>

P_Constructed(p) ==
  /\ step[p] = "ctor"
  /\ MutexReturn(p, DART_OK)
  /\ step' = [step EXCEPT ![p] = "work"]
  /\ UNCHANGED <<goal, done, shared, pending, tmp, useBarrier, barArrived,
                 pteam>>

\* std::lock_guard<dash::Mutex> lg(mx): its constructor calls mx.lock()
P_LockGuard(p) ==
  /\ step[p] = "work"
  /\ done[p] < goal[p]
  /\ lockCall(p, Current(p, "live"), DART_OK)
  /\ step' = [step EXCEPT ![p] = "lock"]
  /\ UNCHANGED <<goal, done, shared, pending, tmp, useBarrier, barArrived,
                 pteam>>

P_Locked(p) ==
  /\ step[p] = "lock"
  /\ lockReturn(p, DART_OK)
  /\ step' = [step EXCEPT ![p] = "read"]
  /\ UNCHANGED <<goal, done, shared, pending, tmp, useBarrier, barArrived,
                 pteam>>

\* int tmp = arr[0];  reads the value the memory holds
P_Read(p) ==
  /\ step[p] = "read"
  /\ tmp' = [tmp EXCEPT ![p] = shared]
  /\ step' = [step EXCEPT ![p] = "write"]
  /\ UNCHANGED <<mutex_vars, goal, done, shared, pending, useBarrier,
                 barArrived, pteam>>

\* arr[0] = tmp + 1;
\* // TODO: this almost certainly requires a flush
\* The assignment returns with the value on its way to the memory.  The
\* block has no flush, so nothing makes the value arrive before the
\* unlock().  The assignments arrive in the order in which they were made:
\* of the values on their way only the last one counts.
P_Write(p) ==
  /\ step[p] = "write"
  /\ pending' = <<tmp[p] + 1>>
  /\ step' = [step EXCEPT ![p] = "unlock"]
  /\ UNCHANGED <<mutex_vars, goal, done, shared, tmp, useBarrier, barArrived,
                 pteam>>

\* The value on its way arrives in the memory, at some moment after the
\* assignment, before or after the unlock() of the block.  Only a read of
\* arr[0] can tell at which moment: the step is taken when a process is
\* about to read, or when no guarded block remains to be executed, which
\* gives every read every value that an arrival at any moment gives it.
P_WriteComplete ==
  /\ pending # <<>>
  /\ \/ \E q \in Procs : step[q] = "read"
     \/ \A q \in Procs : done[q] = goal[q]
  /\ shared' = pending[1]
  /\ pending' = <<>>
  /\ UNCHANGED <<mutex_vars, step, goal, done, tmp, useBarrier, barArrived,
                 pteam>>

\* end of the block: ~lock_guard calls mx.unlock(), tmp leaves its scope;
\* the unlock() does not wait for the assignment to arrive
P_Unlock(p) ==
  /\ step[p] = "unlock"
  /\ unlock(p, Current(p, "live"), DART_OK)
  /\ done' = [done EXCEPT ![p] = @ + 1]
  /\ tmp' = [tmp EXCEPT ![p] = 0]
  /\ step' = [step EXCEPT ![p] = "work"]
  /\ UNCHANGED <<goal, shared, pending, useBarrier, barArrived, pteam>>

\* dash::barrier(): returns once every member has entered it
P_Barrier(p) ==
  /\ step[p] = "work"
  /\ done[p] = goal[p]
  /\ useBarrier
  /\ barArrived' = barArrived \cup {p}
  /\ step' = [step EXCEPT ![p] = "barrier"]
  /\ UNCHANGED <<mutex_vars, goal, done, shared, pending, tmp, useBarrier,
                 pteam>>

P_BarrierReturn(p) ==
  /\ step[p] = "barrier"
  /\ barArrived = Members(pteam)
  /\ step' = [step EXCEPT ![p] = "passed"]
  /\ UNCHANGED <<mutex_vars, goal, done, shared, pending, tmp, useBarrier,
                 barArrived, pteam>>

\* end of the scope of mx: ~Mutex
P_Destruct(p) ==
  /\ \/ step[p] = "passed"
     \/ step[p] = "work" /\ done[p] = goal[p] /\ ~ useBarrier
  /\ DtorCall(p, Current(p, "live"), DART_OK)
  /\ step' = [step EXCEPT ![p] = "dtor"]
  /\ UNCHANGED <<goal, done, shared, pending, tmp, useBarrier, barArrived,
                 pteam>>

P_Destructed(p) ==
  /\ step[p] = "dtor"
  /\ DtorReturn(p, DART_OK)
  /\ step' = [step EXCEPT ![p] = "done"]
  /\ UNCHANGED <<goal, done, shared, pending, tmp, useBarrier, barArrived,
                 pteam>>

ProtoStep(p) ==
  \/ P_Construct(p)
  \/ P_Constructed(p)
  \/ P_LockGuard(p)
  \/ P_Locked(p)
  \/ P_Read(p)
  \/ P_Write(p)
  \/ P_Unlock(p)
  \/ P_Barrier(p)
  \/ P_BarrierReturn(p)
  \/ P_Destruct(p)
  \/ P_Destructed(p)

\* the members of the team are interchangeable: the numbers of blocks are
\* taken in non-increasing order of the process number
ProtoInit ==
  /\ MutexInit
  /\ \E t \in Teams, g \in [Procs -> 0..MaxPairs], b \in BOOLEAN :
       /\ \A p \in Procs \ Members(t) : g[p] = 0
       /\ \A p, q \in Procs : p < q => g[p] >= g[q]
       /\ ClientInit(g, b, t)

ProtoNext ==
  \/ \E p \in Procs : ProtoStep(p)
  \/ P_WriteComplete

\* the program goes on while a step is possible (a statement of the
\* program of some process, the return of a call the runtime can answer,
\* or the arrival of an assignment); weak fairness of every single process
\* implies this
ProtocolSpec ==
  ProtoInit /\ [][ProtoNext]_vars /\ WF_vars(ProtoNext)

\* --------------------------------------------------------------- helpers
\* the live Mutex objects of p whose _mutex is h
Owners(p, h) == {i \in Insts : inst[p][i].st = "live" /\ inst[p][i].mutex = h}

\* the processes that returned from lock() / a true try_lock() on h and
\* have not returned from unlock() since
Holders(h) == {p \in Procs : h \in held[p]}

\* p is blocked inside lock() on the initialized handle h
Waiting(p, h) ==
  /\ pc[p] = "lock_wait"
  /\ arg[p] = h
  /\ hstate[h] = "init"

\* the requests that name a handle
HandleOps == {"acquire", "try_lock", "unlock", "free"}

\* ------------------------------------------------------------------- C1
\* C1: mutual exclusion.  While a lock is initialized, at most one process
\* has returned from lock() or a true try_lock() on it without having
\* unlocked it since, and that process is the holder the runtime recorded.
C1_MutualExclusion ==
  \A h \in Handles :
    hstate[h] = "init" =>
      /\ Cardinality(Holders(h)) <= 1
      /\ \A p \in Holders(h) : holder[h] = p

\* one process holds the lock while another is blocked in lock() on it
C1_Witness ==
  \E h \in Handles : \E p, q \in Procs :
    /\ p # q
    /\ h \in held[p]
    /\ Waiting(q, h)

\* ------------------------------------------------------------------- C2
\* C2: move safety.  No process issues more than one free request for a
\* handle, whatever it moved (the moved-from object frees nothing).
C2_NoDoubleFree ==
  \A p \in Procs : \A h \in Handles : freeCount[p][h] <= 1

\* ------------------------------------------------------------------- C3
\* C3: single ownership.  In each process at most one live Mutex object
\* owns a given handle; after a move the source no longer has it.
C3_SingleOwner ==
  \A p \in Procs : \A h \in Handles : Cardinality(Owners(p, h)) <= 1

\* ------------------------------------------------------------------- C4
\* C4: a try_lock() by B on an initialized lock that another process A
\* holds returns false without blocking (when the runtime reports success)
\* and changes neither the runtime's lock state nor any Mutex object.
C4_FailedTryLockFrame ==
  [][ ( /\ ev'.op = "try_lock"
        /\ ev'.status = DART_OK
        /\ ev'.hpre = "init"
        /\ ev'.holderPre \notin {0, ev'.p} )
      => ( /\ ev'.result = "false"
           /\ pc'[ev'.p] = "idle"
           /\ UNCHANGED <<pc, arg, inst, nInit, nMove, hstate, holder, initArrived,
                          freeArrived, held, freeCount, diag>> )
    ]_vars

\* B's try_lock() has just returned false while A holds the lock
C4_Witness ==
  /\ ev.op = "try_lock"
  /\ ev.result = "false"
  /\ ev.hpre = "init"
  /\ ev.holderPre \notin {0, ev.p}
  /\ holder[ev.h] = ev.holderPre
  /\ pc[ev.p] = "idle"

\* ------------------------------------------------------------------- C5
\* C5: the result of try_lock() matches the state change.  On an
\* initialized lock with a success status: called in Unlocked it returns
\* true and the caller is the holder afterwards; it returns true only if
\* the lock was Unlocked, so never while a different process holds it.
C5_TryLockResult ==
  ( /\ ev.op = "try_lock"
    /\ ev.status = DART_OK
    /\ ev.hpre = "init" )
  => /\ ev.holderPre = 0 => (ev.result = "true" /\ holder[ev.h] = ev.p)
     /\ ev.result = "true" => ( /\ ev.holderPre = 0
                                /\ holder[ev.h] = ev.p
                                /\ ev.h \in held[ev.p] )
     /\ ev.result = "false" => holder[ev.h] = ev.holderPre

\* a try_lock() on an unlocked lock has just returned true
C5_Witness ==
  /\ ev.op = "try_lock"
  /\ ev.result = "true"
  /\ ev.hpre = "init"
  /\ ev.holderPre = 0
  /\ holder[ev.h] = ev.p

\* ------------------------------------------------------------------- C6
\* C6 as stated: while R holds an initialized lock, the only step that
\* changes the lock's state (initialized, holder R) is an unlock() by R;
\* in particular no destructor takes it to Destroyed.
C6_OnlyHolderUnlockLeavesLocked ==
  [][ \A h \in Handles :
        ( /\ hstate[h] = "init"
          /\ holder[h] # 0
          /\ (hstate'[h] # "init" \/ holder'[h] # holder[h]) )
        => ( /\ ev'.op = "unlock"
             /\ ev'.p = holder[h]
             /\ ev'.h = h )
    ]_vars

\* C6 amended: while R holds an initialized lock, its state is changed
\* only by an unlock() of R (to Unlocked) or by the collective destructor
\* completing (to Destroyed, the holder left as it was); an unlock() by
\* another process, lock(), try_lock() and moves leave it Locked(R).
C6_LockedLeftByUnlockOrDestroy ==
  [][ \A h \in Handles :
        ( /\ hstate[h] = "init"
          /\ holder[h] # 0
          /\ (hstate'[h] # "init" \/ holder'[h] # holder[h]) )
        => \/ /\ ev'.op = "unlock"
              /\ ev'.p = holder[h]
              /\ ev'.h = h
              /\ ev'.status = DART_OK
              /\ hstate'[h] = "init"
              /\ holder'[h] = 0
           \/ /\ ev'.op = "free"
              /\ ev'.h = h
              /\ freeArrived'[h] = Members(lteam[h])
              /\ hstate'[h] = "destroyed"
              /\ holder'[h] = holder[h]
    ]_vars

\* an unlock() by a process that is not the holder was refused and the
\* lock is still held by the same process
C6_Witness ==
  /\ ev.op = "unlock"
  /\ ev.hpre = "init"
  /\ ev.holderPre \notin {0, ev.p}
  /\ hstate[ev.h] = "init"
  /\ holder[ev.h] = ev.holderPre

\* ------------------------------------------------------------------- C7
\* the holder of the initialized lock h has just released it
Released(h) ==
  /\ ev.op = "unlock"
  /\ ev.h = h
  /\ ev.status = DART_OK
  /\ ev.hpre = "init"
  /\ ev.holderPre = ev.p

\* p has returned from lock() as the holder of h
Returned(p, h) ==
  /\ pc[p] = "idle"
  /\ holder[h] = p
  /\ h \in held[p]

\* h is initialized and no process holds it
Unlocked(h) ==
  /\ hstate[h] = "init"
  /\ holder[h] = 0

\* the runtime can answer the blocked lock() of p with the grant
Grantable(p) ==
  ENABLED (lockReturn(p, DART_OK) /\ UNCHANGED client)

\* C7 as stated: release makes the lock available.  A try_lock() on an
\* initialized lock that nobody holds (released, and not acquired since)
\* that the runtime answers returns true and makes the caller the holder;
\* and if every holder of a lock eventually unlocks it, every process
\* blocked in lock() on it eventually returns as its holder, unless the
\* runtime reports a failure to it (which ends the process).
C7_ReleaseMakesAvailable ==
  /\ [][ \A h \in Handles :
           ( /\ Unlocked(h)
             /\ ev'.op = "try_lock"
             /\ ev'.h = h
             /\ ev'.status = DART_OK )
           => ( /\ ev'.result = "true"
                /\ holder'[h] = ev'.p )
       ]_vars
  /\ \A h \in Handles :
       [](hstate[h] = "init" /\ holder[h] # 0 => <>Released(h))
         => \A p \in Procs :
              Waiting(p, h) ~> (Returned(p, h) \/ pc[p] = "aborted")

\* C7 (amended): a successful unlock() by the holder leaves the lock
\* initialized and held by nobody; the lock then stays so until a process
\* acquires it through lock() or a true try_lock() (or the lock is freed);
\* as long as it stays so, a try_lock() that the runtime answers returns
\* true and makes the caller the holder, and the lock() of every process
\* blocked on it can be granted.  That a blocked process eventually gets
\* the lock is not part of the statement: the runtime does not order the
\* competitors.
C7_ReleasedLockIsAvailable ==
  [][ \A h \in Handles :
        /\ Released(h)' => Unlocked(h)'
        /\ (Unlocked(h) /\ ~ Unlocked(h)' /\ hstate'[h] = "init")
             => ( /\ ev'.op \in {"lock_return", "try_lock"}
                  /\ ev'.h = h
                  /\ ev'.status = DART_OK
                  /\ holder'[h] = ev'.p )
        /\ (Unlocked(h) /\ ev'.op = "try_lock" /\ ev'.h = h
                        /\ ev'.status = DART_OK)
             => ( /\ ev'.result = "true"
                  /\ holder'[h] = ev'.p )
        /\ \A p \in Procs :
             (Unlocked(h)' /\ Waiting(p, h)') => Grantable(p)'
    ]_vars

\* the holder has just released the lock while another process is blocked
\* in lock() on it
C7_Witness ==
  \E h \in Handles : \E q \in Procs :
    /\ Released(h)
    /\ q # ev.p
    /\ Waiting(q, h)
    /\ Unlocked(h)
    /\ Grantable(q)

\* ------------------------------------------------------------------- C8
\* C8: handle lifecycle.  Every acquire, try_acquire, release and free
\* request names a handle that is initialized when the request is sent.
C8_RequestsNameLiveHandle ==
  ev.op \in HandleOps => ev.hpre = "init"

\* ------------------------------------------------------------------- C9
\* C9: every status is checked.  A non-success status of any of the five
\* runtime calls leaves the caller aborted with that status in its
\* diagnostic; a process that is not aborted has seen success only; and a
\* try_lock() that returned false did so with a success status.
C9_StatusEscalated ==
  /\ ev.status = DART_ERR =>
       /\ pc[ev.p] = "aborted"
       /\ diag[ev.p].status = DART_ERR
  /\ ev.status = DART_OK => pc[ev.p] # "aborted"
  /\ ev.result = "false" => (ev.status = DART_OK /\ pc[ev.p] = "idle")
  /\ \A p \in Procs : pc[p] = "aborted" <=> diag[p] # NoDiag

\* a runtime call has just returned a non-success status
C9_Witness ==
  /\ ev.status = DART_ERR
  /\ ev.op \in {"init_return", "free_return", "lock_return", "try_lock",
                "unlock"}
  /\ pc[ev.p] = "aborted"

\* ------------------------------------------------------------------ C10
\* the diagnostic that names a failed runtime call
ExpectedMsg(call) ==
  CASE call = "init"        -> "dart_team_lock_init failed"
    [] call = "free"        -> "dart_team_lock_free failed"
    [] call = "acquire"     -> "dart_lock_acquire failed"
    [] call = "try_acquire" -> "dart_lock_try_acquire failed"
    [] call = "release"     -> "dart_lock_release failed"
    [] OTHER                -> "none"

\* C10: the diagnostic of an aborted process names the runtime call that
\* failed and carries its status.
C10_DiagnosticNamesOperation ==
  \A p \in Procs :
    pc[p] = "aborted" => /\ diag[p].msg = ExpectedMsg(diag[p].call)
                         /\ diag[p].status = DART_ERR

\* ------------------------------------------------------------------ C11
\* C11: collective lifecycle.  A process leaves the constructor (normally
\* or by the fatal assertion) only when every member of the team has
\* entered the dart_team_lock_init of that lock, and leaves the destructor
\* only when every member has entered its dart_team_lock_free; until then
\* its call stays blocked.  So no process goes on with a lock that only a
\* part of the team has initialized or freed.
C11_CollectiveLifecycle ==
  [][\A p \in Procs :
       /\ (pc[p] = "init_wait" /\ pc'[p] # "init_wait")
            => LET t == inst[p][Current(p, "ctor")].team
               IN initArrived[LockJoined(p, t)] = Members(t)
       /\ (pc[p] = "free_wait" /\ pc'[p] # "free_wait")
            => LET h == inst[p][Current(p, "dying")].mutex
               IN freeArrived[h] = Members(lteam[h])
       /\ \A i \in Insts :
            inst'[p][i].st = "live"
              => /\ lteam'[inst'[p][i].mutex] = inst'[p][i].team
                 /\ initArrived'[inst'[p][i].mutex] = Members(inst'[p][i].team)
       /\ (ev'.op \in {"free", "free_return"} /\ ev'.p = p /\ pc'[p] = "idle")
            => freeArrived'[ev'.h] = Members(lteam'[ev'.h])]_vars

\* a member terminated without entering the destructor, and another member
\* is inside its destructor of that lock
C11_Witness ==
  \E p, q \in Procs : \E h \in Handles :
    /\ pc[p] = "free_wait"
    /\ p \in freeArrived[h]
    /\ pc[q] = "aborted"
    /\ q \in Members(lteam[h]) \ freeArrived[h]
    /\ hstate[h] = "init"

\* ------------------------------------------------------------------ C12
\* p called lock() on a lock it holds itself
SelfDeadlock(p) ==
  /\ pc[p] = "lock_wait"
  /\ arg[p] \in Handles
  /\ hstate[arg[p]] = "init"
  /\ holder[arg[p]] = p

\* C12: lock() is not reentrant.  A process that calls lock() on a lock it
\* holds blocks inside the call, and every later step leaves it there: the
\* call never returns, no assertion ends the process, and the lock stays
\* initialized and held by that process.
C12_NotReentrant ==
  [][\A p \in Procs :
       /\ (/\ pc[p] = "idle"
           /\ ev'.op = "acquire"
           /\ ev'.p = p
           /\ ev'.hpre = "init"
           /\ ev'.holderPre = p) => SelfDeadlock(p)'
       /\ SelfDeadlock(p) =>
            /\ SelfDeadlock(p)'
            /\ arg'[p] = arg[p]
            /\ diag'[p] = NoDiag]_vars

\* a process is in lock() on the lock it holds and another process has
\* since found the lock busy
C12_Witness ==
  \E p \in Procs :
    /\ SelfDeadlock(p)
    /\ ev.op = "try_lock"
    /\ ev.p # p
    /\ ev.result = "false"

\* ------------------------------------------------------------------ C13
RECURSIVE Sum(_, _)
Sum(f, S) ==
  IF S = {} THEN 0
  ELSE LET x == CHOOSE y \in S : TRUE IN f[x] + Sum(f, S \ {x})

\* the processes that have left the guarded blocks and the barrier
PastBarrier == {p \in Procs : step[p] \in {"passed", "dtor", "done"}}

\* every value assigned to arr[0] has arrived in the memory
Flushed == pending = <<>>

C14_LockReturnsWithOwnership ==
  [][/\ (ev'.op = "acquire" /\ ev'.hpre = "init")
        => /\ pc'[ev'.p] = "lock_wait"
           /\ held' = held
     /\ (ev'.op = "lock_return" /\ ev'.status = DART_OK)
        => /\ ev'.hpre = "init"
           /\ ev'.holderPre = 0
           /\ holder'[ev'.h] = ev'.p
           /\ ev'.h \in held'[ev'.p]
     /\ \A p \in Procs :
          (/\ pc[p] = "lock_wait"
           /\ Holder(arg[p]) \in Procs \ {p})
            => /\ pc'[p] \in {"lock_wait", "aborted"}
               /\ pc'[p] = "aborted" => /\ ev'.op = "lock_return"
                                         /\ ev'.status = DART_ERR
               /\ arg[p] \notin held'[p]]_vars

\* a process returned from lock() after the previous holder unlocked
C14_Witness ==
  /\ ev.op = "lock_return"
  /\ ev.status = DART_OK
  /\ holder[ev.h] = ev.p
  /\ \E q \in Procs \ {ev.p} : pc[q] = "lock_wait" /\ arg[q] = ev.h

\* ------------------------------------------------------------------ C15
\* p is the only process that uses the lock
NoContention(p) == goal[p] > 0 /\ \A q \in Procs \ {p} : goal[q] = 0

\* no process has returned from a lock() yet
BeforeFirstLock ==
  \A p \in Procs : done[p] = 0 /\ step[p] \notin {"read", "write", "unlock"}

Destroyed ==
  /\ hstate[LockHandle] = "destroyed"
  /\ \A p \in Procs : pc[p] = "idle" /\ diag[p] = NoDiag
  /\ \A p \in Members(pteam) : step[p] = "done"

\* C15: a constructed Mutex starts Unlocked.  From the completion of the
\* collective constructor until the first lock() returns no process is the
\* holder; when one process alone uses the lock (as in a team of one
\* process), each of its lock() calls can return as soon as it is made;
\* unlock() leaves the lock Unlocked; and that run goes on to the
\* destructor, which reaches Destroyed with no process ended by an
\* assertion.
C15_StartsUnlocked ==
  /\ [](/\ (hstate[LockHandle] = "init" /\ BeforeFirstLock)
            => holder[LockHandle] = 0
        /\ \A p \in Procs :
             (NoContention(p) /\ pc[p] = "lock_wait")
               => dart_lock_acquire_granted(p, arg[p])
        /\ (ev.op = "unlock" /\ ev.status = DART_OK) => holder[ev.h] = 0)
  /\ ((\E p \in Procs : NoContention(p)) ~> Destroyed)

\* the one process of a team of one locked and unlocked, and destroyed the
\* Mutex
C15_Witness ==
  /\ Members(pteam) = {1}
  /\ NoContention(1)
  /\ done[1] = goal[1]
  /\ Destroyed

\* ------------------------------------------------------------------ C17
\* C17: the protocol terminates.  When every member of the team constructs
\* the Mutex, executes its lock()/unlock() pairs and destroys the Mutex,
\* every member finishes, and the lock ends destroyed with no holder, in
\* whatever order the runtime grants the lock.
C17_ProtocolTerminates ==
  <>[](/\ \A p \in Members(pteam) : /\ step[p] = "done"
                           /\ done[p] = goal[p]
                           /\ pc[p] = "idle"
                           /\ held[p] = {}
      /\ hstate[LockHandle] = "destroyed"
      /\ holder[LockHandle] = 0)

\* every process executed MaxPairs pairs and all have finished
C17_Witness ==
  /\ pteam = TeamAll
  /\ \A p \in Procs : goal[p] = MaxPairs /\ step[p] = "done"
  /\ hstate[LockHandle] = "destroyed"

\* ------------------------------------------------------------------ C16
\* C16: moving a Mutex is local.  A move-construction sends no request
\* to the runtime and leaves the runtime's state of every lock (created or
\* not, holder, members arrived), every other process and the position of
\* the moving process as they are; the one change is a new object of that
\* process with the team and the handle of the source.
C16_MoveIsLocal ==
  [][ev'.op = "move" =>
       LET p == ev'.p
       IN /\ rt' = rt
          /\ nInit' = nInit
          /\ freeCount' = freeCount
          /\ ev'.status = "none"
          /\ <<pc, arg, held, diag>>' = <<pc, arg, held, diag>>
          /\ \A q \in Procs \ {p} : inst'[q] = inst[q]
          /\ \E src, dst \in Insts :
               /\ inst[p][src].st = "live"
               /\ inst[p][dst].st = "none"
               /\ ev'.h = inst[p][src].mutex
               /\ inst'[p] = Sorted([inst[p] EXCEPT ![dst] =
                                [st    |-> "live",
                                 mutex |-> inst[p][src].mutex,
                                 team  |-> inst[p][src].team]])]_vars

\* a process moved its Mutex while another process held the lock
C16_Witness ==
  /\ ev.op = "move"
  /\ ev.hpre = "init"
  /\ holder[ev.h] \in Procs \ {ev.p}
  /\ Cardinality(Owners(ev.p, ev.h)) = 2

\* ------------------------------------------------------------------ C18
\* p has no object left and is not inside a call
RunComplete(p) ==
  /\ pc[p] = "idle"
  /\ nInit[p] > 0
  /\ \A i \in Insts : inst[p][i].st \in {"none", "dead"}

\* the dart_team_lock_init / dart_team_lock_free calls p issued for team t
InitsFor(p, t) ==
  Cardinality({h \in Handles : lteam[h] = t /\ p \in initArrived[h]})

FreesFor(p, t) ==
  Sum([h \in Handles |-> IF lteam[h] = t THEN freeCount[p][h] ELSE 0], Handles)

\* C18: the free requests of a process balance its init requests.  For
\* each team a process never issues more dart_team_lock_free requests than
\* dart_team_lock_init requests, and when all its objects are destroyed
\* the two numbers are equal.
C18_FreesBalanceInits ==
  \A p \in Procs : \A t \in Teams :
    /\ FreesFor(p, t) <= InitsFor(p, t)
    /\ RunComplete(p) => FreesFor(p, t) = InitsFor(p, t)

====
